---------------------------- MODULE Spec2Model ----------------------------
(***************************************************************************)
(* A model of libNLTK's probability module (src/src/probability.rs): the   *)
(* frequency distribution FreqDist, the uniform probability distribution   *)
(* UniformProbDist, the trait ProbDistI and add_log; and of the span       *)
(* functions of its tokenizer utilities (src/src/tokenize/util.rs).        *)
(*                                                                         *)
(* Spec          the FreqDist object: its mutators init and add, and its   *)
(*               accessors N, B, hapaxes, r_Nr, freq, max, list.           *)
(* SpecUniform   the UniformProbDist object: init, prob, samples, max,     *)
(*               generate.                                                 *)
(* SpecProbDist  the default methods of the trait ProbDistI, logprob and   *)
(*               generate, over implementations of prob and samples.       *)
(* SpecAddLog    the function add_log.                                     *)
(* SpecRegexpSpan, SpecAlign, SpecRelative, SpecStringSpan                 *)
(*               the functions regexp_span_tokenize, align_tokens,         *)
(*               spans_to_relative and string_span_tokenize.               *)
(* SpecTokenizerI  the tokenizers of src/src/tokenize/simple.rs, each with *)
(*               its tokenize and its span_tokenize.                       *)
(* SpecOnset     LegalitySyllableTokenizer::onset.                         *)
(* SpecLazyZip   LazyZip::new and iter (src/src/collections.rs).           *)
(*                                                                         *)
(* A hash map is a function whose DOMAIN is the set of stored keys.  The   *)
(* iteration order of a HashMap is unspecified, so a Vec collected from    *)
(* one is modelled by the set of its elements (the keys are unique).       *)
(***************************************************************************)
EXTENDS Integers, Sequences, FiniteSets, TLC

(***************************************************************************)
(* Bounds of the model.                                                    *)
(***************************************************************************)
\* the longest sample list handed to one FreqDist::init call
MaxBatch == 5
\* the number of samples fed to one FreqDist by all init and add calls
MaxFed == 5
\* the largest `bin` argument handed to FreqDist::r_Nr
MaxBin == 4
\* the longest sample list held by one UniformProbDist
MaxSupport == 4
\* the longest list samples() of another implementation of ProbDistI
MaxGenLen == 3
\* the largest logarithm handed to add_log, in halves: from -8.0 to 8.0
MaxLogHalves == 16
\* the longest sentence handed to a span function, in chars
MaxSentLen == 4
\* the longest word handed to LegalitySyllableTokenizer::onset, in chars
MaxWordLen == 4
\* the longest array handed to LazyZip::new
MaxZipLen == 3
\* the longest token list handed to align_tokens
MaxTokens == 3
\* the longest span list handed to spans_to_relative
MaxSpans == 3
\* the largest position in a span handed to spans_to_relative
MaxPos == 3

\* the sample type T of FreqDist<T>
Samples == {"apple", "banana", "pineapple"}
\* the sample type T of UniformProbDist<T>
USamples == {"a", "b", "c", "d", "z"}
\* the sample type T of the other implementations of ProbDistI<T>
GSamples == {"x", "y", "z"}

\* the word list of the doc tests of FreqDist
Words == <<"apple", "banana", "apple", "apple", "pineapple">>

\* all sequences over S of length at most n
SeqUpTo(S, n) == UNION {[1..k -> S] : k \in 0..n}

\* Option<T>
None == [some |-> FALSE]
Some(v) == [some |-> TRUE, value |-> v]

VARIABLES
    counter,     \* FreqDist.counter: the map the accessors read
    _map,        \* the map FreqDist::add writes (self._map)
    _samples,    \* the count FreqDist::add increments (self._samples)
    fed,         \* history: how often each sample was fed in by init and add
    pre,         \* history: counter as it was before the last init or add
    ret,         \* the last call on the FreqDist: its name, argument, result
    sampleset,   \* UniformProbDist.sampleset
    uret,        \* the last call on the UniformProbDist
    dist,        \* an implementation of ProbDistI: its samples() and prob()
    pret,        \* the last call on dist
    fret         \* the last call of a free function

fdVars == <<counter, _map, _samples, fed, pre, ret>>
upVars == <<sampleset, uret>>
pdVars == <<dist, pret>>
vars == <<counter, _map, _samples, fed, pre, ret, sampleset, uret, dist, pret,
          fret>>

(***************************************************************************)
(* Maps: Counter<T, usize> and HashMap<T, usize>.                          *)
(***************************************************************************)
\* the empty map (Default::default())
EmptyMap == [k \in {} |-> 0]

\* map.get(&key).unwrap_or(&0)
GetOr0(m, key) == IF key \in DOMAIN m THEN m[key] ELSE 0

\* map.insert(key, value)
Insert(m, key, value) ==
    [k \in DOMAIN m \cup {key} |-> IF k = key THEN value ELSE m[k]]

\* the sum of the values of a map
RECURSIVE SumOver(_, _)
SumOver(m, keys) ==
    IF keys = {} THEN 0
    ELSE LET k == CHOOSE x \in keys : TRUE
         IN  m[k] + SumOver(m, keys \ {k})

\* the number of positions of `list` that hold s
Occurrences(list, s) == Cardinality({i \in DOMAIN list : list[i] = s})

(***************************************************************************)
(* FreqDist::init.                                                         *)
(***************************************************************************)
\* self.counter.entry(key).or_insert_with(|| 0): the map with the entry made
OrInsertZero(m, key) == IF key \in DOMAIN m THEN m ELSE Insert(m, key, 0)

\* Increment with the addition left out
Increment_dropped(m, key) == m

\* *val += 1 on the entry of key
Increment(m, key) == [m EXCEPT ![key] = @ + 1]

\* InitStep storing 1 whether or not the key is already there
InitStep_overwrite(m, key) == Insert(m, key, 1)

\* one turn of the loop of init
InitStep(m, key) == Increment(OrInsertZero(m, key), key)

\* for key in sample_list { ... }
RECURSIVE FreqDist_init(_, _)
FreqDist_init(m, sample_list) ==
    IF sample_list = <<>> THEN m
    ELSE FreqDist_init(InitStep(m, Head(sample_list)), Tail(sample_list))

(***************************************************************************)
(* FreqDist::add.  Its body names self._map and self._samples; the struct  *)
(* declares only `counter`, which add never touches.                       *)
(***************************************************************************)
\* let value = *self._map.get(&sample_key).unwrap_or(&0);
\* self._map.insert(sample_key, value + 1);
FreqDist_add_map(m, sample_key) == Insert(m, sample_key, GetOr0(m, sample_key) + 1)

(***************************************************************************)
(* The accessors of FreqDist, all reading self.counter.                    *)
(***************************************************************************)
\* self.counter.values().sum()
N(m) == SumOver(m, DOMAIN m)

\* self.counter.len()
B(m) == Cardinality(DOMAIN m)

\* hapaxes with the filter left out
hapaxes_unfiltered(m) == DOMAIN m

\* self.counter.iter().filter(|(_, &v)| v == 1).map(|(&k, _)| k).collect()
hapaxes(m) == {k \in DOMAIN m : m[k] = 1}

\* self.counter.iter().collect()
list(m) == {<<k, m[k]>> : k \in DOMAIN m}

\* self.counter.keys().collect()
list_keys(m) == DOMAIN m


\* what a call gives back: a value, or a panic that unwinds out of it
Ok(v) == [kind |-> "ok", value |-> v]
Panic == [kind |-> "panic"]

\* Nr: todo!()
Nr(m) == Panic

\* r_Nr.  `bin` is an Option<usize>.  The subtraction _bin - self.B() is on
\* usize: when _bin < B() it panics in a build with overflow checks and wraps
\* to 2^64 - (B() - _bin) in a build without them, a value above every stored
\* count, so that the filter keeps nothing.  The result is the set of the
\* outcomes the builds can produce.
r_Nr(m, bin) ==
    LET _bin == IF bin.some THEN bin.value ELSE B(m)
    IN  IF _bin < B(m)
        THEN {Panic, Ok({})}
        ELSE LET limit == _bin - B(m)
             IN  {Ok({<<k, m[k]>> : k \in {x \in DOMAIN m : m[x] = limit}})}

\* freq(&self): todo!()
freq(m) == Panic

\* max(&self): todo!()
max(m) == Panic

(***************************************************************************)
(* The calls on one FreqDist.                                              *)
(***************************************************************************)
\* the number of samples fed in so far
FedTotal == SumOver(fed, Samples)

\* fed, with every sample of the list counted
FedWith(batch) == [s \in Samples |-> fed[s] + Occurrences(batch, s)]

\* the sample lists init is called with: only those the bounds still allow
Batches ==
    LET room == MaxFed - FedTotal
    IN  SeqUpTo(Samples, IF room < MaxBatch THEN room ELSE MaxBatch)

Call(op, arg, val) == [op |-> op, arg |-> arg, val |-> val]

\* f.init(sample_list)
Call_init(sample_list) ==
    /\ FedTotal + Len(sample_list) <= MaxFed
    /\ counter' = FreqDist_init(counter, sample_list)
    /\ pre' = counter
    /\ fed' = FedWith(sample_list)
    /\ ret' = Call("init", sample_list, Ok("unit"))
    /\ UNCHANGED <<_map, _samples, sampleset, uret, dist, pret, fret>>

\* f.add(sample_key)
Call_add(sample_key) ==
    /\ FedTotal + 1 <= MaxFed
    /\ _map' = FreqDist_add_map(_map, sample_key)
    /\ _samples' = _samples + 1
    /\ pre' = counter
    /\ fed' = FedWith(<<sample_key>>)
    /\ ret' = Call("add", <<sample_key>>, Ok("self"))
    /\ UNCHANGED <<counter, sampleset, uret, dist, pret, fret>>

\* a call of an accessor (&self): it changes nothing of the distribution
Query(op, arg, val) ==
    /\ ret' = Call(op, arg, val)
    /\ UNCHANGED <<counter, _map, _samples, fed, pre, sampleset, uret, dist,
                   pret, fret>>

Call_N == Query("N", <<>>, Ok(N(counter)))
Call_B == Query("B", <<>>, Ok(B(counter)))
Call_hapaxes == Query("hapaxes", <<>>, Ok(hapaxes(counter)))
Call_list == Query("list", <<>>, Ok(list(counter)))
Call_r_Nr(bin) == \E out \in r_Nr(counter, bin) : Query("r_Nr", bin, out)
Call_freq == Query("freq", <<>>, freq(counter))
Call_max == Query("max", <<>>, max(counter))

\* FreqDist::default(), an empty UniformProbDist, an implementation of
\* ProbDistI without samples, and no free function called yet
Init ==
    /\ counter = EmptyMap
    /\ _map = EmptyMap
    /\ _samples = 0
    /\ fed = [s \in Samples |-> 0]
    /\ pre = EmptyMap
    /\ ret = Call("default", <<>>, Ok("self"))
    /\ sampleset = <<>>
    /\ uret = Call("new", <<>>, Ok("self"))
    /\ dist = [samples |-> <<>>, prob |-> [s \in GSamples |-> 0]]
    /\ pret = Call("none", <<>>, Ok("unit"))
    /\ fret = Call("none", <<>>, Ok("unit"))

Next ==
    \/ \E sample_list \in Batches : Call_init(sample_list)
    \/ \E sample_key \in Samples : Call_add(sample_key)
    \/ Call_N
    \/ Call_B
    \/ Call_hapaxes
    \/ Call_list
    \/ \E bin \in {None} \cup {Some(r) : r \in 0..MaxBin} : Call_r_Nr(bin)
    \/ Call_freq
    \/ Call_max

Spec == Init /\ [][Next]_vars


(***************************************************************************)
(* Properties of FreqDist, checked under Spec.                             *)
(***************************************************************************)
\* the elements of a sequence
Range(seq) == {seq[i] : i \in DOMAIN seq}

\* the samples fed in at least once
FedDistinct == {s \in Samples : fed[s] > 0}

\* what a caller sees of a distribution through N(), B(), hapaxes(), list()
Observed(m) == <<N(m), B(m), hapaxes(m), list(m)>>

\* C1: after any sequence of init and add calls on a fresh FreqDist, N() is
\* the number of samples fed in by all the calls, duplicates counted, and B()
\* is the number of distinct samples fed in.
C1_CountInvariant ==
    /\ N(counter) = FedTotal
    /\ B(counter) = Cardinality(FedDistinct)

\* C2: in every state reached from the empty distribution by init and add,
\* every key stored in a count map has a count of at least 1.
C2_NoZeroCount ==
    /\ \A k \in DOMAIN counter : counter[k] >= 1
    /\ \A k \in DOMAIN _map : _map[k] >= 1

\* an init call has just stored a key that was not there before
C2_Witness ==
    /\ ret.op = "init"
    /\ DOMAIN counter \ DOMAIN pre # {}
    /\ DOMAIN pre # {}
    /\ DOMAIN _map # {}

\* C3: init(samples) raises the stored count of each sample by the number of
\* times it occurs in samples, stores exactly the samples that were stored or
\* occur in samples, and leaves every other count as it was; on a fresh
\* distribution list() then holds one (sample, multiplicity) entry per
\* distinct sample: (apple,3), (banana,1), (pineapple,1) for the doc test.
C3_InitAddsMultiplicity ==
    ret.op = "init" =>
        /\ \A s \in Samples :
               GetOr0(counter, s) = GetOr0(pre, s) + Occurrences(ret.arg, s)
        /\ DOMAIN counter = DOMAIN pre \cup Range(ret.arg)
        /\ pre = EmptyMap =>
               list(counter) =
                   {<<s, Occurrences(ret.arg, s)>> : s \in Range(ret.arg)}
        /\ (pre = EmptyMap /\ ret.arg = Words) =>
               list(counter) =
                   {<<"apple", 3>>, <<"banana", 1>>, <<"pineapple", 1>>}

\* init on a distribution that already holds counts, with a list that repeats
\* one sample and leaves out a stored one
C3_Witness ==
    /\ ret.op = "init"
    /\ \E s \in Samples : Occurrences(ret.arg, s) >= 2 /\ s \in DOMAIN pre
    /\ \E s \in DOMAIN pre : Occurrences(ret.arg, s) = 0

\* C4: from any reachable state, what N(), B(), hapaxes() and list() show
\* after add(s) is what they show after init([s]).
C4_AddIsInitOfOne ==
    ret.op = "add" => Observed(counter) = Observed(FreqDist_init(pre, ret.arg))

\* C5: a sample is in the result of hapaxes() iff its stored count is exactly
\* 1; when all samples were fed in by init, iff it was fed in exactly once
\* ({banana, pineapple} for apple, banana, apple, apple, pineapple).
C5_HapaxCorrect ==
    ret.op = "hapaxes" =>
        /\ ret.val.kind = "ok"
        /\ \A s \in Samples : s \in ret.val.value <=> GetOr0(counter, s) = 1
        /\ _samples = 0 =>
               \A s \in Samples : s \in ret.val.value <=> fed[s] = 1
        /\ (_samples = 0 /\ fed = [s \in Samples |-> Occurrences(Words, s)]) =>
               ret.val.value = {"banana", "pineapple"}

\* hapaxes() on the distribution of the doc test
C5_Witness ==
    /\ ret.op = "hapaxes"
    /\ counter = [s \in Samples |-> Occurrences(Words, s)]
    /\ ret.val.value = {"banana", "pineapple"}

\* C6: freq returns a value for every sample, count(sample) / N() as the
\* fraction <<count, N>>, and 0 on an empty distribution: it never panics.
C6_FreqDefined ==
    ret.op = "freq" =>
        /\ ret.val.kind = "ok"
        /\ IF N(counter) = 0
           THEN ret.val.value = <<0, 1>>
           ELSE ret.val.value \in
                    {<<GetOr0(counter, s), N(counter)>> : s \in Samples}

\* C7: max() returns a sample whose stored count is the greatest count when
\* a sample has been recorded, and None, without panicking, when none has.
C7_MaxIsGreatest ==
    ret.op = "max" =>
        /\ ret.val.kind = "ok"
        /\ IF DOMAIN counter = {}
           THEN ret.val.value = None
           ELSE /\ ret.val.value.some
                /\ ret.val.value.value \in DOMAIN counter
                /\ \A k \in DOMAIN counter :
                       counter[k] <= counter[ret.val.value.value]

\* C8: r_Nr(r), for a target frequency r, returns exactly the (sample, count)
\* pairs of the distribution whose count equals r.
C8_RNrExact ==
    (ret.op = "r_Nr" /\ ret.arg.some) =>
        ret.val =
            Ok({<<k, counter[k]>> :
                    k \in {x \in DOMAIN counter : counter[x] = ret.arg.value}})


(***************************************************************************)
(* f32.  A positive f32 is held as [m, e], the number m / 2^e with a       *)
(* 24-bit significand 2^23 <= m < 2^24; zero is [m |-> 0, e |-> 0].        *)
(***************************************************************************)
F32Zero == [m |-> 0, e |-> 0]

\* the exponent e with 2^23 <= 2^e / k < 2^24, for k >= 1
RecipExp(k) == CHOOSE e \in 23..29 : 2^23 * k <= 2^e /\ 2^e < 2^24 * k

\* a quotient rounded to the nearest integer, ties to the even one
RoundNearestEven(num, den) ==
    LET q == num \div den
        r == num % den
    IN  IF 2 * r > den \/ (2 * r = den /\ q % 2 = 1) THEN q + 1 ELSE q

\* 1.0 / (k as f32), for 1 <= k < 2^6: the f32 nearest to 1/k
F32Recip(k) ==
    LET e == RecipExp(k)
        m == RoundNearestEven(2^e, k)
    IN  IF m = 2^24 THEN [m |-> 2^23, e |-> e - 1] ELSE [m |-> m, e |-> e]

(***************************************************************************)
(* f32 arithmetic on probabilities.  Where f32 values are subtracted and   *)
(* compared they are held as integers, in units of 2^-27: the value n      *)
(* stands for n / 2^27.  An f32 has a 24-bit significand, so n is an f32   *)
(* iff n = 0 or n is j * 2^s with j < 2^24; a result that is not is        *)
(* rounded to the nearest f32, ties to the even significand.               *)
(***************************************************************************)
\* 1.0
F32One == 2^27

\* the value m / 2^e in units of 2^-27 (e <= 27)
Units(f) == IF f.m = 0 THEN 0 ELSE f.m * 2^(27 - f.e)

\* the number of bits n has above 24: the s with 2^(23+s) <= n < 2^(24+s)
ExcessBits(n) == CHOOSE s \in 0..7 : n < 2^(24 + s) /\ (s = 0 \/ n >= 2^(23 + s))

\* the f32 nearest to n >= 0
F32Round(n) ==
    LET s == ExcessBits(n)
    IN  2^s * RoundNearestEven(n, 2^s)

\* a - b on f32
F32Sub(a, b) ==
    IF a >= b THEN F32Round(a - b) ELSE 0 - F32Round(b - a)

\* f32::log2(p) is held as [floor, exact]: the integer floor of the
\* logarithm, and whether the logarithm is that integer (p a power of two).
\* log2(0.0) is minus infinity, and the logarithm of a negative number NaN.
NegInf == [inf |-> "-inf"]
NaN == [nan |-> TRUE]
BitLength(n) == CHOOSE b \in 1..31 : n < 2^b /\ n >= 2^(b - 1)
F32Log2(n) ==
    IF n = 0 THEN NegInf
    ELSE IF n < 0 THEN NaN
    ELSE [floor |-> BitLength(n) - 1 - 27, exact |-> n = 2^(BitLength(n) - 1)]

(***************************************************************************)
(* The default methods of the trait ProbDistI.  An implementation gives    *)
(* samples(), a list, and prob(), here a function from samples to f32      *)
(* values in units of 2^-27.                                               *)
(***************************************************************************)
\* logprob without the test for a zero probability
ProbDistI_logprob_unguarded(prob, sample) == Some(F32Log2(prob[sample]))

\* logprob(&self, sample)
ProbDistI_logprob(prob, sample) ==
    LET p == prob[sample]
    IN  IF p # 0 THEN Some(F32Log2(p)) ELSE None

\* the test of the loop of generate, with < for <=
Crossed_strict(p) == p < 0

\* if p <= 0.0
Crossed(p) == p <= 0

\* for s in self.samples() { p -= self.prob(s); if p <= 0.0 { return s; } }
\* from position i on: the sample returned, or None when the list ends
RECURSIVE generate_loop(_, _, _, _)
generate_loop(samples, prob, p, i) ==
    IF i > Len(samples) THEN None
    ELSE LET q == F32Sub(p, prob[samples[i]])
         IN  IF Crossed(q) THEN Some(samples[i])
             ELSE generate_loop(samples, prob, q, i + 1)

\* generate drawing its fallback index from 0..=smpl.len(): get() is None
\* at smpl.len(), and unwrap() panics
generate_inclusive(samples, prob, p) ==
    LET hit == generate_loop(samples, prob, p, 1)
    IN  IF hit.some
        THEN {[val |-> Ok(hit.value), draws |-> 1, index |-> None]}
        ELSE {[val |-> IF i < Len(samples) THEN Ok(samples[i + 1]) ELSE Panic,
               draws |-> 2, index |-> Some(i)] : i \in 0..Len(samples)}

\* generate drawing its fallback index before the loop, in every call
generate_eager(samples, prob, p) ==
    LET hit == generate_loop(samples, prob, p, 1)
    IN  IF Len(samples) = 0
        THEN {[val |-> Panic, draws |-> 1, index |-> None]}
        ELSE {[val |-> IF hit.some THEN Ok(hit.value) ELSE Ok(samples[i + 1]),
               draws |-> 2, index |-> Some(i)] : i \in 0..(Len(samples) - 1)}

\* generate(&self), given p, the value rng.gen::<f32>() draws.  The outcomes
\* are records: the sample returned or a panic, the number of values asked
\* of rng, and the index drawn by rng.gen_range(0..smpl.len()), if one was.
\* gen_range panics on the empty range 0..0, before it draws.
generate(samples, prob, p) ==
    LET hit == generate_loop(samples, prob, p, 1)
    IN  IF hit.some
        THEN {[val |-> Ok(hit.value), draws |-> 1, index |-> None]}
        ELSE IF Len(samples) = 0
        THEN {[val |-> Panic, draws |-> 1, index |-> None]}
        ELSE {[val |-> Ok(samples[i + 1]), draws |-> 2, index |-> Some(i)] :
                  i \in 0..(Len(samples) - 1)}

\* values rng.gen::<f32>() can draw: multiples of 2^-24 in [0, 1)
Draws == {0, 2^3, 2^25, 2^26, 2^27 - 2^3}

(***************************************************************************)
(* UniformProbDist.                                                        *)
(***************************************************************************)
\* init(mut self, samples): samples.iter().for_each(|&s| self.sampleset.push(*s))
UniformProbDist_init(set, samples) == set \o samples

\* self.sampleset.contains(&sample)
Contains(set, sample) == \E i \in DOMAIN set : set[i] = sample

\* prob computing 1 / len on integers before the conversion to f32
UniformProbDist_prob_intdiv(set, sample) ==
    IF Contains(set, sample)
    THEN IF 1 \div Len(set) = 1 THEN F32Recip(1) ELSE F32Zero
    ELSE F32Zero

\* prob(&self, sample)
UniformProbDist_prob(set, sample) ==
    IF Contains(set, sample) THEN F32Recip(Len(set)) ELSE F32Zero

\* samples(&self): self.sampleset.clone()
UniformProbDist_samples(set) == set

\* max(&self): *self.sampleset.get(0).unwrap()
UniformProbDist_max(set) == IF Len(set) = 0 THEN Panic ELSE Ok(set[1])

\* prob, as the default methods of ProbDistI call it
UniformProbDist_probf(set) ==
    [s \in USamples |-> Units(UniformProbDist_prob(set, s))]

\* the sample lists init is called with: only those the bound still allows
Supports == SeqUpTo(USamples, MaxSupport - Len(sampleset))

\* u.init(samples): it takes the distribution by value and gives it back
Call_uinit(samples) ==
    /\ sampleset' = UniformProbDist_init(sampleset, samples)
    /\ uret' = Call("init", samples, Ok("self"))
    /\ UNCHANGED <<fdVars, pdVars, fret>>

\* u.prob(sample)
Call_prob(sample) ==
    /\ uret' = Call("prob", sample, Ok(UniformProbDist_prob(sampleset, sample)))
    /\ UNCHANGED <<sampleset, fdVars, pdVars, fret>>

\* u.samples()
Call_samples ==
    /\ uret' = Call("samples", <<>>, Ok(UniformProbDist_samples(sampleset)))
    /\ UNCHANGED <<sampleset, fdVars, pdVars, fret>>

\* u.max()
Call_umax ==
    /\ uret' = Call("max", <<>>, UniformProbDist_max(sampleset))
    /\ UNCHANGED <<sampleset, fdVars, pdVars, fret>>

\* u.generate(), rng drawing p
Call_ugenerate(p) ==
    /\ \E out \in generate(UniformProbDist_samples(sampleset),
                            UniformProbDist_probf(sampleset), p) :
           uret' = Call("generate", p, out)
    /\ UNCHANGED <<sampleset, fdVars, pdVars, fret>>

NextUniform ==
    \/ \E samples \in Supports : Call_uinit(samples)
    \/ \E sample \in USamples : Call_prob(sample)
    \/ Call_samples
    \/ Call_umax
    \/ \E p \in Draws : Call_ugenerate(p)

SpecUniform == Init /\ [][NextUniform]_vars

(***************************************************************************)
(* Properties of UniformProbDist, checked under SpecUniform.               *)
(***************************************************************************)
\* the samples the distribution was built from, each once
Support == Range(sampleset)

\* the samples supplied were pairwise distinct
Distinct(seq) == Cardinality(Range(seq)) = Len(seq)

\* p is the f32 nearest to 1/k: normalised, and within half a unit in the
\* last place of 1/k
NearestTo1Over(p, k) ==
    /\ 2^23 <= p.m /\ p.m < 2^24
    /\ LET d == p.m * k - 2^p.e
       IN  2 * (IF d < 0 THEN 0 - d ELSE d) <= k

\* k times p is 1 to within 1e-6
SumsToOne(p, k) ==
    LET d == p.m * k - 2^p.e
    IN  (IF d < 0 THEN 0 - d ELSE d) <= 2^p.e \div 1000000

\* C9: for a UniformProbDist built over k >= 1 distinct samples, prob(s) is
\* 1/k (the f32 quotient 1.0 / k: the f32 nearest to 1/k, and 1/k itself when
\* k is a power of two) for every s of the support and 0 for every other s,
\* so that the probabilities over the support sum to 1 (within 1e-6);
\* support {a,b,c,d}: prob(a) = 0.25, prob(z) = 0.
C9_UniformProb ==
    (uret.op = "prob" /\ Len(sampleset) >= 1 /\ Distinct(sampleset)) =>
        LET k == Cardinality(Support)
            p == uret.val.value
        IN  /\ uret.val.kind = "ok"
            /\ uret.arg \in Support =>
                   /\ NearestTo1Over(p, k) /\ SumsToOne(p, k)
                   /\ k \in {1, 2, 4} => p.m * k = 2^p.e
            /\ uret.arg \notin Support => p = F32Zero
            /\ Support = {"a", "b", "c", "d"} =>
                   IF uret.arg = "z" THEN p = F32Zero ELSE 4 * p.m = 2^p.e

\* prob of a member of a support of three distinct samples
C9_Witness ==
    /\ uret.op = "prob"
    /\ Len(sampleset) = 3 /\ Distinct(sampleset)
    /\ uret.arg \in Support
    /\ uret.val.value = [m |-> 11184811, e |-> 25]

\* C10: building a UniformProbDist from a list with duplicates collapses
\* them: the stored support, and the list samples() returns, holds each
\* sample at most once, and prob(s) = 1/(number of distinct samples) for
\* every sample supplied.
C10_DuplicatesCollapsed ==
    /\ Distinct(UniformProbDist_samples(sampleset))
    /\ uret.op = "samples" => Distinct(uret.val.value)
    /\ (uret.op = "prob" /\ uret.arg \in Support) =>
           uret.val.value = F32Recip(Cardinality(Support))


\* C11: on a UniformProbDist with an empty support prob is 0 for every
\* sample, and max() and generate() give the caller a no-sample result:
\* neither panics.
C11_EmptySupport ==
    Len(sampleset) = 0 =>
        /\ uret.op = "prob" => uret.val = Ok(F32Zero)
        /\ uret.op = "max" => uret.val.kind = "ok"
        /\ uret.op = "generate" => uret.val.val.kind = "ok"


(***************************************************************************)
(* Implementations of ProbDistI other than UniformProbDist: any list of    *)
(* samples and any probability per sample, the probabilities being f32     *)
(* values in [0, 1]: 0, 2^-25, 3 * 2^-25, 1 - 2^-23.                       *)
(***************************************************************************)
ProbValues == {0, 2^2, 3 * 2^2, 2^27 - 2^4}

\* the distribution is constructed, once: it does not change afterwards
Construct(samples, prob) ==
    /\ pret.op = "none"
    /\ dist' = [samples |-> samples, prob |-> prob]
    /\ pret' = Call("new", <<>>, Ok("self"))
    /\ UNCHANGED <<fdVars, upVars, fret>>

\* dist.logprob(sample)
Call_logprob(sample) ==
    /\ pret' = Call("logprob", sample, Ok(ProbDistI_logprob(dist.prob, sample)))
    /\ UNCHANGED <<dist, fdVars, upVars, fret>>

\* dist.generate(), rng drawing p
Call_generate(p) ==
    /\ \E out \in generate(dist.samples, dist.prob, p) :
           pret' = Call("generate", p, out)
    /\ UNCHANGED <<dist, fdVars, upVars, fret>>

NextProbDist ==
    \/ \E samples \in SeqUpTo(GSamples, MaxGenLen),
          prob \in [GSamples -> ProbValues] : Construct(samples, prob)
    \/ \E sample \in GSamples : Call_logprob(sample)
    \/ \E p \in Draws : Call_generate(p)

SpecProbDist == Init /\ [][NextProbDist]_vars

(***************************************************************************)
(* Properties of the default methods of ProbDistI, under SpecProbDist.     *)
(***************************************************************************)
\* p minus the probabilities of the first i samples, in exact arithmetic
RECURSIVE ExactRemainder(_, _, _, _)
ExactRemainder(samples, prob, p, i) ==
    IF i = 0 THEN p
    ELSE ExactRemainder(samples, prob, p, i - 1) - prob[samples[i]]

\* the running remainder after i subtractions, each one rounded to f32
RECURSIVE RunningRemainder(_, _, _, _)
RunningRemainder(samples, prob, p, i) ==
    IF i = 0 THEN p
    ELSE F32Sub(RunningRemainder(samples, prob, p, i - 1), prob[samples[i]])

\* the least element of a non-empty set of numbers
Least(S) == CHOOSE i \in S : \A j \in S : i <= j

\* the positions at which the exact remainder is <= 0
ExactCrossings ==
    {i \in 1..Len(dist.samples) :
         ExactRemainder(dist.samples, dist.prob, pret.arg, i) <= 0}

\* the positions at which the running f32 remainder is <= 0
Crossings ==
    {i \in 1..Len(dist.samples) :
         RunningRemainder(dist.samples, dist.prob, pret.arg, i) <= 0}

\* C12 as stated: generate() returns samples()[i] for the least i with
\* p - (prob(samples()[1]) + ... + prob(samples()[i])) <= 0, when there is
\* such an i.
C12_ExactSum ==
    (pret.op = "generate" /\ ExactCrossings # {}) =>
        pret.val.val = Ok(dist.samples[Least(ExactCrossings)])

\* C12, amended: generate() walks samples() in order, subtracting prob(s)
\* from p in f32, and returns the first sample at which this running
\* remainder is <= 0: samples()[i] for the least i at which the remainder,
\* each subtraction rounded to f32, is <= 0, when there is such an i.
C12_RunningRemainder ==
    (pret.op = "generate" /\ Crossings # {}) =>
        /\ pret.val.val = Ok(dist.samples[Least(Crossings)])
        /\ pret.val.index = None

\* generate() returning the second of three samples, after a first
\* subtraction that left the remainder above 0
C12_Witness ==
    /\ pret.op = "generate"
    /\ Len(dist.samples) = 3
    /\ Least(Crossings \cup {4}) = 2
    /\ dist.prob[dist.samples[1]] > 0
    /\ pret.val.val = Ok(dist.samples[2])


\* C13: for a distribution with non-empty samples(), generate() returns a
\* member of samples() and does not fail; when the loop ends without the
\* remainder reaching <= 0 it returns the sample at an index drawn from the
\* whole of samples().
C13_GenerateTotal ==
    (pret.op = "generate" /\ Len(dist.samples) >= 1) =>
        /\ pret.val.val.kind = "ok"
        /\ pret.val.val.value \in Range(dist.samples)
        /\ Crossings = {} =>
               /\ pret.val.index.some
               /\ pret.val.index.value \in 0..(Len(dist.samples) - 1)
               /\ pret.val.val.value = dist.samples[pret.val.index.value + 1]

\* the probabilities, all above 0, sum to less than the draw: the loop ended
\* above 0 and the fallback drew the last index
C13_Witness ==
    /\ pret.op = "generate"
    /\ Len(dist.samples) = 3
    /\ \A i \in 1..3 : dist.prob[dist.samples[i]] > 0
    /\ Crossings = {}
    /\ pret.val.index = Some(2)
    /\ pret.val.val = Ok(dist.samples[3])

\* C14: logprob(s) returns a value, the base-2 logarithm of prob(s), exactly
\* when prob(s) > 0, and None exactly when prob(s) = 0; it never returns
\* minus infinity.
C14_LogprobDefined ==
    pret.op = "logprob" =>
        LET p == dist.prob[pret.arg]
            r == pret.val.value
        IN  /\ pret.val.kind = "ok"
            /\ r.some <=> p > 0
            /\ r = None <=> p = 0
            /\ r.some =>
                   /\ r.value # NegInf
                   /\ 2^(27 + r.value.floor) <= p
                   /\ p < 2^(28 + r.value.floor)
                   /\ r.value.exact <=> p = 2^(27 + r.value.floor)

\* logprob of a sample of probability 0, and the answer None
C14_Witness ==
    /\ pret.op = "logprob"
    /\ dist.prob[pret.arg] = 0
    /\ pret.val = Ok(None)
    /\ \E s \in GSamples : dist.prob[s] = 2^2


(***************************************************************************)
(* add_log.  Its f64 arguments are the multiples of 1/2 in a range, held   *)
(* as integers in halves: h stands for h / 2.  These and their sums with   *)
(* _add_logs_max_diff() = log2(100) = 6.6438... are far enough apart for   *)
(* the f64 comparisons to be those of the exact values.                    *)
(***************************************************************************)
\* the largest number of halves below _add_logs_max_diff(): 6.5 < log2(100) < 7
MaxDiffHalves == 13

\* a < b + _add_logs_max_diff(), for a and b in halves
LessThanPlusMaxDiff(a, b) == a - b <= MaxDiffHalves

\* f64::min
F64Min(a, b) == IF a < b THEN a ELSE b

\* add_log returning its first argument in its first branch
add_log_swapped(logx, logy) ==
    IF LessThanPlusMaxDiff(logx, logy) THEN logx ELSE logy

\* add_log(logx, logy).  The value of the last branch,
\* base + log2(2 * (logx - base) + 2 * (logy - base)), is held as the pair of
\* base and the argument of log2, both in halves.
add_log(logx, logy) ==
    IF LessThanPlusMaxDiff(logx, logy) THEN logy
    ELSE IF LessThanPlusMaxDiff(logy, logx) THEN logx
    ELSE LET base == F64Min(logx, logy)
         IN  [base |-> base,
              log2_of |-> 2 * (logx - base) + 2 * (logy - base)]

LogInputs == (0 - MaxLogHalves)..MaxLogHalves

\* add_log(logx, logy)
Call_add_log(logx, logy) ==
    /\ fret' = Call("add_log", <<logx, logy>>, Ok(add_log(logx, logy)))
    /\ UNCHANGED <<fdVars, upVars, pdVars>>

NextAddLog == \E logx \in LogInputs, logy \in LogInputs : Call_add_log(logx, logy)

SpecAddLog == Init /\ [][NextAddLog]_vars

(***************************************************************************)
(* Properties of add_log, under SpecAddLog.                                *)
(***************************************************************************)
\* |logx - logy| of the last call, in halves
Gap ==
    LET d == fret.arg[1] - fret.arg[2]
    IN  IF d < 0 THEN 0 - d ELSE d

\* the gap of the last call exceeds MAX_DIFF: it is 7.0 or more
GapExceedsMaxDiff == Gap >= 14

\* C15: when |logx - logy| exceeds MAX_DIFF = log2(100), add_log returns the
\* larger of logx and logy unchanged, in whichever position it is.
C15_LargerReturned ==
    (fret.op = "add_log" /\ GapExceedsMaxDiff) =>
        /\ fret.val.value \in {fret.arg[1], fret.arg[2]}
        /\ fret.val.value >= fret.arg[1]
        /\ fret.val.value >= fret.arg[2]

\* add_log(-3.5, 4.0): the larger argument, in the second position
C15_Witness ==
    /\ fret.op = "add_log"
    /\ fret.arg = <<0 - 7, 8>>
    /\ fret.val = Ok(8)

\* C16: when |logx - logy| is at most MAX_DIFF, add_log returns
\* log2(2^logx + 2^logy): a value above both arguments, and n + 1 for
\* add_log(n, n) (add_log(3, 3) = 4).
C16_LogOfSum ==
    (fret.op = "add_log" /\ ~GapExceedsMaxDiff) =>
        /\ fret.val.value \in Int
        /\ fret.val.value > fret.arg[1]
        /\ fret.val.value > fret.arg[2]
        /\ fret.arg[1] = fret.arg[2] => fret.val.value = fret.arg[1] + 2


(***************************************************************************)
(* Strings.  A &str is the sequence of its chars; a char is named by a     *)
(* TLA+ string.  "e_acute" is U+00E9, two bytes in UTF-8; the other chars  *)
(* are ASCII.  Each char of Chars is one grapheme cluster.                 *)
(***************************************************************************)
Chars == {"a", "e_acute", " "}

\* char::len_utf8
len_utf8(c) == IF c = "e_acute" THEN 2 ELSE 1

\* str::len: the length in bytes
RECURSIVE len(_)
len(s) == IF s = <<>> THEN 0 ELSE len_utf8(Head(s)) + len(Tail(s))

\* the byte offset at which the char of index i starts (i = Len(s) + 1: the end)
ByteOffset(s, i) == len(SubSeq(s, 1, i - 1))

\* s.graphemes(true).count()
graphemes_count(s) == Len(s)

\* the chars the regex class \s matches
IsWhitespace(c) == c = " "

Sentences == SeqUpTo(Chars, MaxSentLen)

(***************************************************************************)
(* regexp_span_tokenize, for the patterns \s+ and \s.                      *)
(***************************************************************************)
Patterns == {"\\s+", "\\s"}

\* the index of the last char of the match of re that starts at char i
RECURSIVE MatchLast(_, _, _)
MatchLast(s, re, i) ==
    IF re = "\\s+" /\ i < Len(s) /\ IsWhitespace(s[i + 1])
    THEN MatchLast(s, re, i + 1)
    ELSE i

\* Regex::find_iter: the successive non-overlapping matches of re in s from
\* the char of index i on, leftmost first, with their byte offsets
RECURSIVE find_iter(_, _, _)
find_iter(s, re, i) ==
    IF i > Len(s) THEN <<>>
    ELSE IF ~IsWhitespace(s[i]) THEN find_iter(s, re, i + 1)
    ELSE LET j == MatchLast(s, re, i)
         IN  <<[start |-> ByteOffset(s, i), end |-> ByteOffset(s, j + 1)]>>
                 \o find_iter(s, re, j + 1)

\* index = m.start(), in place of m.end()
NextIndex_start(m) == m.start

\* index = m.end()
NextIndex(m) == m.end

\* the loop of regexp_span_tokenize over the matches
RECURSIVE regexp_span_loop(_, _, _)
regexp_span_loop(matches, index, result) ==
    IF matches = <<>> THEN [index |-> index, result |-> result]
    ELSE regexp_span_loop(Tail(matches), NextIndex(Head(matches)),
                          Append(result, <<index, Head(matches).start>>))

\* regexp_span_tokenize(sent, regexp)
regexp_span_tokenize(sent, regexp) ==
    LET after == regexp_span_loop(find_iter(sent, regexp, 1), 0, <<>>)
    IN  Append(after.result, <<after.index, len(sent)>>)

\* regexp_span_tokenize(sent, regexp)
Call_regexp_span_tokenize(sent, regexp) ==
    /\ fret' = Call("regexp_span_tokenize", <<sent, regexp>>,
                    Ok(regexp_span_tokenize(sent, regexp)))
    /\ UNCHANGED <<fdVars, upVars, pdVars>>

NextRegexpSpan ==
    \E sent \in Sentences, regexp \in Patterns :
        Call_regexp_span_tokenize(sent, regexp)

SpecRegexpSpan == Init /\ [][NextRegexpSpan]_vars

(***************************************************************************)
(* align_tokens.                                                           *)
(***************************************************************************)
\* Err(e) of a Result
Err(e) == [kind |-> "err", value |-> e]

\* tokens.join(" ")
RECURSIVE join(_)
join(tokens) ==
    IF tokens = <<>> THEN <<>>
    ELSE IF Len(tokens) = 1 THEN tokens[1]
    ELSE tokens[1] \o <<" ">> \o join(Tail(tokens))

\* is_char_boundary: byte offset at is the start of a char of s, or its end
is_char_boundary(s, at) == \E i \in 1..(Len(s) + 1) : ByteOffset(s, i) = at

\* String::split_off(at): the part of s from byte offset at on; it panics
\* when at is beyond the end or not on a char boundary
split_off(s, at) ==
    IF at > len(s) \/ ~is_char_boundary(s, at) THEN Panic
    ELSE Ok(SubSeq(s, (CHOOSE i \in 1..(Len(s) + 1) : ByteOffset(s, i) = at),
                   Len(s)))

\* the loop of align_tokens over the tokens
RECURSIVE align_loop(_, _, _, _)
align_loop(tokens, sentence, index, token_span) ==
    IF tokens = <<>> THEN Ok(token_span)
    ELSE LET word == Head(tokens)
             wsize == graphemes_count(word)
             rest == split_off(sentence, len(word))
         IN  IF rest = Panic THEN Panic
             ELSE align_loop(Tail(tokens), rest.value, index + wsize + 1,
                             Append(token_span, <<index, index + wsize>>))

\* align_tokens(tokens, _sent)
align_tokens(tokens, _sent) ==
    IF join(tokens) # _sent THEN Err("MismatchError")
    ELSE align_loop(tokens, _sent, 0, <<>>)

\* the tokens, and the sentences tried with a token list: the tokens joined
\* by spaces, that with a space more, and the tokens one after the other
TokenWords == {<<>>, <<"a">>, <<"e_acute">>, <<"a", "e_acute">>}
TokenLists == SeqUpTo(TokenWords, MaxTokens)

RECURSIVE Concat(_)
Concat(tokens) ==
    IF tokens = <<>> THEN <<>> ELSE Head(tokens) \o Concat(Tail(tokens))

SentencesFor(tokens) ==
    {join(tokens), Append(join(tokens), " "), Concat(tokens)}

\* align_tokens(tokens, _sent)
Call_align_tokens(tokens, _sent) ==
    /\ fret' = Call("align_tokens", <<tokens, _sent>>, align_tokens(tokens, _sent))
    /\ UNCHANGED <<fdVars, upVars, pdVars>>

NextAlign ==
    \E tokens \in TokenLists :
        \E _sent \in SentencesFor(tokens) : Call_align_tokens(tokens, _sent)

SpecAlign == Init /\ [][NextAlign]_vars

(***************************************************************************)
(* Properties of regexp_span_tokenize, under SpecRegexpSpan.               *)
(***************************************************************************)
\* the number of bytes of s before its char of index i
BytesBefore(s, i) ==
    (i - 1) + Cardinality({k \in 1..(i - 1) : s[k] = "e_acute"})

\* the matches of re in s, as pairs of the indices of their first and last
\* chars: the maximal runs of whitespace for \s+, each whitespace char for \s
MatchesOf(s, re) ==
    {m \in (1..Len(s)) \X (1..Len(s)) :
        /\ m[1] <= m[2]
        /\ \A k \in m[1]..m[2] : IsWhitespace(s[k])
        /\ IF re = "\\s+"
           THEN /\ m[1] = 1 \/ ~IsWhitespace(s[m[1] - 1])
                /\ m[2] = Len(s) \/ ~IsWhitespace(s[m[2] + 1])
           ELSE m[1] = m[2]}

\* the i-th of them from the left
MatchNo(s, re, i) ==
    CHOOSE m \in MatchesOf(s, re) :
        Cardinality({n \in MatchesOf(s, re) : n[1] < m[1]}) = i - 1

\* the words of s: its maximal runs of chars that are not whitespace, as
\* spans of byte offsets
WordSpans(s) ==
    {<<BytesBefore(s, w[1]), BytesBefore(s, w[2] + 1)>> :
        w \in {v \in (1..Len(s)) \X (1..Len(s)) :
                  /\ v[1] <= v[2]
                  /\ \A k \in v[1]..v[2] : ~IsWhitespace(s[k])
                  /\ v[1] = 1 \/ IsWhitespace(s[v[1] - 1])
                  /\ v[2] = Len(s) \/ IsWhitespace(s[v[2] + 1])}}

C18_AlignSpans ==
    fret.op = "align_tokens" =>
        LET tokens == fret.arg[1]
            sent == fret.arg[2]
            result == fret.val.value
        IN  IF join(tokens) # sent THEN fret.val = Err("MismatchError")
            ELSE /\ fret.val.kind = "ok"
                 /\ Len(result) = Len(tokens)
                 /\ Len(result) > 0 => result[1][1] = 0
                 /\ \A i \in 1..Len(tokens) :
                       /\ result[i][2] - result[i][1] = Len(tokens[i])
                       /\ SubSeq(sent, result[i][1] + 1, result[i][2]) = tokens[i]
                 /\ \A i \in 1..(Len(tokens) - 1) :
                       result[i + 1][1] = result[i][2] + 1

(***************************************************************************)
(* spans_to_relative.  A Token is a pair <<start, end>> of usize.          *)
(***************************************************************************)
\* the usize 2^64 - k, which a subtraction that passes below zero by k wraps to
Wrapped(k) == [wrapped |-> k]

\* a - b in usize, when overflow wraps
wrapping_sub(a, b) == IF a >= b THEN a - b ELSE Wrapped(b - a)

\* prev = *left, in place of *right
NextPrev_left(left, right) == left

\* prev = *right
NextPrev(left, right) == right

\* the loop of spans_to_relative; overflowed: a subtraction passed below zero
RECURSIVE relative_loop(_, _, _, _)
relative_loop(token_span, prev, result, overflowed) ==
    IF token_span = <<>> THEN [result |-> result, overflowed |-> overflowed]
    ELSE LET left == Head(token_span)[1]
             right == Head(token_span)[2]
         IN  IF left = right
             THEN relative_loop(Tail(token_span), prev, result, overflowed)
             ELSE relative_loop(Tail(token_span), NextPrev(left, right),
                      Append(result, <<wrapping_sub(left, prev),
                                       wrapping_sub(right, left)>>),
                      overflowed \/ left < prev \/ right < left)

\* spans_to_relative(token_span): the results the builds can give.  A
\* subtraction below zero panics where overflow is checked and wraps where
\* it is not.
spans_to_relative(token_span) ==
    LET after == relative_loop(token_span, 0, <<>>, FALSE)
    IN  IF after.overflowed THEN {Panic, Ok(after.result)}
        ELSE {Ok(after.result)}

\* increasing and non-overlapping
Ordered(spans) ==
    /\ \A i \in 1..Len(spans) : spans[i][1] <= spans[i][2]
    /\ \A i \in 1..(Len(spans) - 1) : spans[i][2] <= spans[i + 1][1]

\* the span lists tried: the increasing non-overlapping ones, and every list
\* of at most two spans
SpanLists ==
    {spans \in SeqUpTo((0..MaxPos) \X (0..MaxPos), MaxSpans) :
        Ordered(spans) \/ Len(spans) <= 2}

\* spans_to_relative(token_span)
Call_spans_to_relative(token_span) ==
    /\ \E val \in spans_to_relative(token_span) :
           fret' = Call("spans_to_relative", <<token_span>>, val)
    /\ UNCHANGED <<fdVars, upVars, pdVars>>

NextRelative == \E token_span \in SpanLists : Call_spans_to_relative(token_span)

SpecRelative == Init /\ [][NextRelative]_vars

(***************************************************************************)
(* Properties of spans_to_relative, under SpecRelative.                    *)
(***************************************************************************)
NonEmptySpan(span) == span[1] # span[2]

\* the absolute spans of a list of (gap, length) pairs, by the running sum
\* from the end of the span before
RECURSIVE ToAbsolute(_, _)
ToAbsolute(relative, prev_end) ==
    IF relative = <<>> THEN <<>>
    ELSE LET start == prev_end + Head(relative)[1]
             end == start + Head(relative)[2]
         IN  <<(<<start, end>>)>> \o ToAbsolute(Tail(relative), end)

\* C19: on an increasing, non-overlapping list of spans, spans_to_relative
\* skips every empty span and maps each other span to (start - end of the
\* previous non-empty span, or start - 0 for the first; end - start), and
\* the running sum of the result gives the non-empty spans back.
C19_RelativeLossless ==
    (fret.op = "spans_to_relative" /\ Ordered(fret.arg[1])) =>
        LET kept == SelectSeq(fret.arg[1], NonEmptySpan)
            result == fret.val.value
        IN  /\ fret.val.kind = "ok"
            /\ Len(result) = Len(kept)
            /\ \A k \in 1..Len(kept) :
                  result[k] = <<kept[k][1] - (IF k = 1 THEN 0 ELSE kept[k - 1][2]),
                                kept[k][2] - kept[k][1]>>
            /\ ToAbsolute(result, 0) = kept

\* (1,2), (2,2), (2,3): an empty span between two others
C19_Witness ==
    /\ fret.op = "spans_to_relative"
    /\ fret.arg = << << <<1, 2>>, <<2, 2>>, <<2, 3>> >> >>
    /\ fret.val = Ok(<< <<1, 1>>, <<0, 1>> >>)

(***************************************************************************)
(* string_span_tokenize, for separators that are not empty.                *)
(***************************************************************************)
Seps == {<<" ">>, <<" ", " ">>, <<"e_acute">>}

\* str::starts_with
starts_with(s, sep) == Len(s) >= Len(sep) /\ SubSeq(s, 1, Len(sep)) = sep

\* sent.split(sep): the pieces of s between the successive occurrences of
\* sep found from the left, none overlapping another; piece holds the chars
\* passed since the last occurrence
RECURSIVE split(_, _, _)
split(s, sep, piece) ==
    IF s = <<>> THEN <<piece>>
    ELSE IF starts_with(s, sep)
         THEN <<piece>> \o split(SubSeq(s, Len(sep) + 1, Len(s)), sep, <<>>)
         ELSE split(Tail(s), sep, Append(piece, Head(s)))

\* the loop of string_span_tokenize over the pieces; total is
\* sent.graphemes(true).count()
RECURSIVE string_span_loop(_, _, _, _)
string_span_loop(temp, total, pos, result) ==
    IF temp = <<>> THEN Ok(result)
    ELSE LET m == Head(temp)
             end == pos + graphemes_count(m)
         IN  IF end > total THEN Err("MismatchError")
             ELSE string_span_loop(Tail(temp), total,
                                   pos + graphemes_count(m) + 1,
                                   Append(result, <<pos, end>>))

\* string_span_tokenize(sent, sep)
string_span_tokenize(sent, sep) ==
    LET temp == split(sent, sep, <<>>)
    IN  IF temp = <<>> THEN Err("ParseError")
        ELSE string_span_loop(temp, graphemes_count(sent), 0, <<>>)

\* string_span_tokenize(sent, sep)
Call_string_span_tokenize(sent, sep) ==
    /\ fret' = Call("string_span_tokenize", <<sent, sep>>,
                    string_span_tokenize(sent, sep))
    /\ UNCHANGED <<fdVars, upVars, pdVars>>

NextStringSpan ==
    \E sent \in Sentences, sep \in Seps : Call_string_span_tokenize(sent, sep)

SpecStringSpan == Init /\ [][NextStringSpan]_vars

(***************************************************************************)
(* Properties of string_span_tokenize, under SpecStringSpan.               *)
(***************************************************************************)
\* the position in sent at which piece i of pieces starts, each piece before
\* it being followed by one sep
RECURSIVE PieceStart(_, _, _)
PieceStart(pieces, sep, i) ==
    IF i = 1 THEN 0
    ELSE PieceStart(pieces, sep, i - 1) + Len(pieces[i - 1]) + Len(sep)

\* C20: for a separator that is not empty, string_span_tokenize returns Ok
\* with one span per piece of sent split at each occurrence of sep, in
\* order, and span i is (start of piece i in sent, start plus its length):
\* sent[start:end] is the piece.
C20_SpansOfPieces ==
    fret.op = "string_span_tokenize" =>
        LET sent == fret.arg[1]
            sep == fret.arg[2]
            pieces == split(sent, sep, <<>>)
            result == fret.val.value
        IN  /\ fret.val.kind = "ok"
            /\ Len(result) = Len(pieces)
            /\ \A i \in 1..Len(pieces) :
                  /\ result[i] = <<PieceStart(pieces, sep, i),
                                   PieceStart(pieces, sep, i) + Len(pieces[i])>>
                  /\ SubSeq(sent, result[i][1] + 1, result[i][2]) = pieces[i]

(***************************************************************************)
(* The tokenizers of simple.rs that implement TokenizerI.  "\n" is the     *)
(* line feed, one byte and one grapheme cluster.                           *)
(***************************************************************************)
Tokenizers == {"SpaceTokenizer", "CharTokenizer", "LineTokenizer"}

LineChars == {"a", "e_acute", "\n"}

\* char::is_alphanumeric
is_alphanumeric(c) == c \in {"a", "e_acute"}

\* sent.split(char::is_alphanumeric): the pieces of s between its
\* alphanumeric chars
RECURSIVE split_alphanumeric(_, _)
split_alphanumeric(s, piece) ==
    IF s = <<>> THEN <<piece>>
    ELSE IF is_alphanumeric(Head(s))
         THEN <<piece>> \o split_alphanumeric(Tail(s), <<>>)
         ELSE split_alphanumeric(Tail(s), Append(piece, Head(s)))

\* sent.lines(): the pieces of s ended by a line feed, and the rest of s
\* after the last line feed when it is not empty
RECURSIVE lines(_, _)
lines(s, piece) ==
    IF s = <<>> THEN (IF piece = <<>> THEN <<>> ELSE <<piece>>)
    ELSE IF Head(s) = "\n" THEN <<piece>> \o lines(Tail(s), <<>>)
         ELSE lines(Tail(s), Append(piece, Head(s)))

\* the loop of CharTokenizer::span_tokenize over the graphemes, and that of
\* LineTokenizer::span_tokenize over the lines: each pushes
\* (index, index + len) and adds len, the length in bytes, to index
RECURSIVE byte_span_loop(_, _, _)
byte_span_loop(parts, index, result) ==
    IF parts = <<>> THEN result
    ELSE byte_span_loop(Tail(parts), index + len(Head(parts)),
                        Append(result, <<index, index + len(Head(parts))>>))

\* sent.graphemes(true)
graphemes(s) == [i \in 1..Len(s) |-> <<s[i]>>]

\* Result::unwrap
unwrap(r) == IF r.kind = "ok" THEN Ok(r.value) ELSE Panic

\* tokenize(sent) of a tokenizer
tokenize(tokenizer, sent) ==
    CASE tokenizer = "SpaceTokenizer" -> split(sent, <<" ">>, <<>>)
      [] tokenizer = "CharTokenizer" -> split_alphanumeric(sent, <<>>)
      [] tokenizer = "LineTokenizer" -> lines(sent, <<>>)

\* span_tokenize(sent) of a tokenizer
span_tokenize(tokenizer, sent) ==
    CASE tokenizer = "SpaceTokenizer" ->
             unwrap(string_span_tokenize(sent, <<" ">>))
      [] tokenizer = "CharTokenizer" ->
             Ok(byte_span_loop(graphemes(sent), 0, <<>>))
      [] tokenizer = "LineTokenizer" ->
             Ok(byte_span_loop(lines(sent, <<>>), 0, <<>>))

\* the sentences tried with a tokenizer
SentencesOf(tokenizer) ==
    IF tokenizer = "LineTokenizer" THEN SeqUpTo(LineChars, MaxSentLen)
    ELSE Sentences

\* t.tokenize(sent) and t.span_tokenize(sent), on the same sentence
Call_tokenize_and_span(tokenizer, sent) ==
    /\ fret' = Call("tokenize, span_tokenize", <<tokenizer, sent>>,
                    [tokens |-> Ok(tokenize(tokenizer, sent)),
                     spans |-> span_tokenize(tokenizer, sent)])
    /\ UNCHANGED <<fdVars, upVars, pdVars>>

NextTokenizerI ==
    \E tokenizer \in Tokenizers :
        \E sent \in SentencesOf(tokenizer) :
            Call_tokenize_and_span(tokenizer, sent)

SpecTokenizerI == Init /\ [][NextTokenizerI]_vars

(***************************************************************************)
(* Properties of the tokenizers, under SpecTokenizerI.                     *)
(***************************************************************************)
\* sent[start:end] is token, the positions counted in bytes
ByteSliceIs(sent, span, token) ==
    /\ span[1] <= span[2]
    /\ \E i \in 1..(Len(sent) + 1), j \in 1..(Len(sent) + 1) :
          /\ BytesBefore(sent, i) = span[1]
          /\ BytesBefore(sent, j) = span[2]
          /\ SubSeq(sent, i, j - 1) = token

\* sent[start:end] is token, the positions counted in grapheme clusters
GraphemeSliceIs(sent, span, token) ==
    /\ span[1] <= span[2]
    /\ span[2] <= Len(sent)
    /\ SubSeq(sent, span[1] + 1, span[2]) = token

\* the spans are those of the tokens, one for one and in order, in sent
SpansMatchTokens(sent, tokens, spans) ==
    /\ Len(spans) = Len(tokens)
    /\ \/ \A i \in 1..Len(tokens) : ByteSliceIs(sent, spans[i], tokens[i])
       \/ \A i \in 1..Len(tokens) : GraphemeSliceIs(sent, spans[i], tokens[i])

\* C21: for every tokenizer, the spans of span_tokenize(sent) correspond one
\* to one and in order to the tokens of tokenize(sent), sent[start_i:end_i]
\* being token i (the positions of one call all in bytes or all in grapheme
\* clusters); for LineTokenizer span i delimits line i of sent.
C21_SpansAreTokens ==
    fret.op = "tokenize, span_tokenize" =>
        /\ fret.val.spans.kind = "ok"
        /\ SpansMatchTokens(fret.arg[2], fret.val.tokens.value,
                            fret.val.spans.value)

(***************************************************************************)
(* LegalitySyllableTokenizer::onset.  The tokenizer is made by new with    *)
(* the default vowels or with vowels of the caller's; onset reads no other *)
(* field.                                                                  *)
(***************************************************************************)
\* const VOWELS: &str = "aeiouy"
VOWELS == <<"a", "e", "i", "o", "u", "y">>

\* the vowels field after new(.., language_vowels, ..): VOWELS for None
VowelSets == {VOWELS, <<"a", "e_acute">>}

WordChars == {"s", "a", "e_acute"}
OnsetWords == SeqUpTo(WordChars, MaxWordLen)

\* self.vowels.contains(c), for a grapheme c of one char
contains(vowels, c) == \E i \in 1..Len(vowels) : vowels[i] = c[1]

\* word.grapheme_indices(true): each grapheme with its byte offset
grapheme_indices(word) ==
    [i \in 1..Len(word) |-> <<ByteOffset(word, i), <<word[i]>>>>]

\* index = i.into()
IndexAt(i, c) == Some(i)

\* the loop of onset: it stops at the first vowel
RECURSIVE onset_loop(_, _, _)
onset_loop(vowels, indices, index) ==
    IF indices = <<>> THEN index
    ELSE LET i == Head(indices)[1]
             c == Head(indices)[2]
         IN  IF contains(vowels, c) THEN index
             ELSE onset_loop(vowels, Tail(indices), IndexAt(i, c))

\* word.split_at(mid): its first part; it panics when mid is not on a char
\* boundary
split_at(word, mid) ==
    IF mid > len(word) \/ ~is_char_boundary(word, mid) THEN Panic
    ELSE Ok(SubSeq(word, 1,
                   (CHOOSE i \in 1..(Len(word) + 1) : ByteOffset(word, i) = mid) - 1))

\* onset(word) of a tokenizer with these vowels
onset(vowels, word) ==
    LET index == onset_loop(vowels, grapheme_indices(word), None)
    IN  IF index.some
        THEN LET result == split_at(word, index.value)
             IN  IF result = Panic THEN Panic ELSE Ok(Some(result.value))
        ELSE Ok(None)

\* LegalitySyllableTokenizer::new(.., vowels, ..).onset(word)
Call_onset(vowels, word) ==
    /\ fret' = Call("onset", <<vowels, word>>, onset(vowels, word))
    /\ UNCHANGED <<fdVars, upVars, pdVars>>

NextOnset ==
    \E vowels \in VowelSets, word \in OnsetWords : Call_onset(vowels, word)

SpecOnset == Init /\ [][NextOnset]_vars

(***************************************************************************)
(* Properties of onset, under SpecOnset.                                   *)
(***************************************************************************)
\* the chars of word that precede its first vowel; the whole word if it has
\* no vowel
ConsonantCluster(vowels, word) ==
    LET IsVowel(k) == \E v \in 1..Len(vowels) : vowels[v] = word[k]
        first == IF \E k \in 1..Len(word) : IsVowel(k)
                 THEN CHOOSE k \in 1..Len(word) :
                          IsVowel(k) /\ \A j \in 1..(k - 1) : ~IsVowel(j)
                 ELSE Len(word) + 1
    IN  SubSeq(word, 1, first - 1)

\* C22: onset(word) returns the chars of word that precede its first vowel
\* (the whole word if it has no vowel), and None exactly when word starts
\* with a vowel or is empty.
C22_OnsetIsCluster ==
    fret.op = "onset" =>
        LET cluster == ConsonantCluster(fret.arg[1], fret.arg[2])
        IN  IF cluster = <<>> THEN fret.val = Ok(None)
            ELSE fret.val = Ok(Some(cluster))

(***************************************************************************)
(* LazyZip<K, V>: its one field, map, is a HashMap<K, V>.                  *)
(***************************************************************************)
ZipKeys == {"a", "b"}
ZipValues == {1, 2}

\* the for loop of new: map.insert(first[p], sec[p]) for p from `from` up
\* to list_size - 1 (p counted from 0)
RECURSIVE zip_loop(_, _, _, _, _)
zip_loop(map, first, sec, from, list_size) ==
    IF from >= list_size THEN map
    ELSE zip_loop(Insert(map, first[from + 1], sec[from + 1]), first, sec,
                  from + 1, list_size)

\* LazyZip::new(first, sec)
LazyZip_new(first, sec) ==
    LET list_size == IF Len(first) < Len(sec) THEN Len(first) ELSE Len(sec)
    IN  [map |-> zip_loop(EmptyMap, first, sec, 0, list_size)]

\* iter(): the pairs of the map, in no order
LazyZip_iter(self) == {<<k, self.map[k]>> : k \in DOMAIN self.map}

\* LazyZip::new(first, sec).iter()
Call_LazyZip_new(first, sec) ==
    /\ fret' = Call("LazyZip::new", <<first, sec>>,
                    Ok(LazyZip_iter(LazyZip_new(first, sec))))
    /\ UNCHANGED <<fdVars, upVars, pdVars>>

NextLazyZip ==
    \E first \in SeqUpTo(ZipKeys, MaxZipLen), sec \in SeqUpTo(ZipValues, MaxZipLen) :
        Call_LazyZip_new(first, sec)

SpecLazyZip == Init /\ [][NextLazyZip]_vars

(***************************************************************************)
(* Properties of LazyZip, under SpecLazyZip.                               *)
(***************************************************************************)
\* C23: LazyZip::new(first, sec) holds exactly min(len(first), len(sec))
\* pairs, the pair (first[i], sec[i]) for every i below that minimum and
\* nothing else, also when first holds a value more than once.
C23_ZipHoldsEveryPair ==
    fret.op = "LazyZip::new" =>
        LET first == fret.arg[1]
            sec == fret.arg[2]
            least == IF Len(first) < Len(sec) THEN Len(first) ELSE Len(sec)
            held == fret.val.value
        IN  /\ Cardinality(held) = least
            /\ held = {<<first[i], sec[i]>> : i \in 1..least}

(***************************************************************************)
(* The random source of generate, under SpecProbDist.  A value asked of    *)
(* the source is one call of rng.gen or rng.gen_range.                     *)
(***************************************************************************)
\* the subtraction loop returns a sample: the running f32 remainder of the
\* draw p reaches <= 0 at some position
LoopReturns(samples, prob, p) ==
    \E i \in 1..Len(samples) : RunningRemainder(samples, prob, p, i) <= 0

\* C24: each call of generate() on a distribution with non-empty samples()
\* asks the random source for exactly one value when the subtraction loop
\* returns a sample and for exactly two (the draw, then one fallback index)
\* when the loop runs out; never for more; and it leaves the distribution
\* as it was.
C24_DrawsPerCall ==
    [][(pret'.op = "generate" /\ Len(dist.samples) >= 1) =>
          /\ dist' = dist
          /\ pret'.val.draws =
                 (IF LoopReturns(dist.samples, dist.prob, pret'.arg) THEN 1 ELSE 2)
          /\ pret'.val.draws <= 2
          /\ pret'.val.index.some <=> pret'.val.draws = 2]_vars

\* a call whose loop ran out on a list of two samples: two values drawn, the
\* second the index 0
C24_Witness ==
    /\ pret.op = "generate"
    /\ Len(dist.samples) = 2
    /\ Crossings = {}
    /\ pret.val.draws = 2
    /\ pret.val.index = Some(0)

====
